---- MODULE Spec2Model ----
(***************************************************************************)
(* Weenix kernel core: the kernel thread scheduler of                      *)
(* kernel/proc/sched.c as a state machine.                                 *)
(*                                                                         *)
(* A ktqueue_t is modelled by its list (tq_list, head first) and its       *)
(* counter (tq_size); a kthread_t by kt_state, kt_cancelled, kt_wchan and  *)
(* the old_ipl local of its suspended sched_switch frame.  Every function  *)
(* of sched.c is an operator from kernel state to kernel state; one action *)
(* per public entry point applies it to the current state.                 *)
(***************************************************************************)
EXTENDS Integers, Sequences, FiniteSets, TLC

\* Bounds of the model.
NumThreads == 3
NumWaitQs == 1
NumCallers == 2     \* threads that use the tty
MaxBuf == 2         \* characters the line discipline buffers
MaxLen == 2         \* bytes in a buffer given to tty_write
NumPages == 5       \* user pages 0 .. NumPages-1
PAGE_SIZE == 2      \* bytes in a page

\* Program constants.
NULL == 0
EINTR == 4
EFAULT == 14
ENOMEM == 12

Threads == 1..NumThreads
WaitQs == 1..NumWaitQs
kt_runq == NumWaitQs + 1
Queues == WaitQs \cup {kt_runq}

IPL_LOW == "IPL_LOW"
IPL_HIGH == "IPL_HIGH"
IPLs == {IPL_LOW, IPL_HIGH}

KT_NO_STATE == "KT_NO_STATE"
KT_RUN == "KT_RUN"
KT_SLEEP == "KT_SLEEP"
KT_SLEEP_CANCELLABLE == "KT_SLEEP_CANCELLABLE"
KT_EXITED == "KT_EXITED"

VARIABLES
    kt_state,       \* [Threads -> state]            thr->kt_state
    kt_cancelled,   \* [Threads -> {0, 1}]           thr->kt_cancelled
    kt_wchan,       \* [Threads -> Queues u {NULL}]  thr->kt_wchan
    old_ipl,        \* [Threads -> IPLs]             old_ipl of thr's sched_switch frame
    tq_list,        \* [Queues -> Seq(Threads)]      q->tq_list, head first
    tq_size,        \* [Queues -> Int]               q->tq_size
    curthr,         \* the current thread
    ipl,            \* the CPU's interrupt priority level
    mode,           \* "run", or where sched_switch's wait loop stands
    panicked,       \* the kernel has halted in panic()
    order,          \* [Queues -> Seq(Threads)]      history: arrival order on q
    curproc,        \* the current process: p_start_brk, p_brk, p_vmmap, ...
    last_brk,       \* history: addr of the latest do_brk that set the break
    tty,            \* the tty: its driver, its line discipline, calls in progress
    tty_last        \* history: the latest finished tty call, in brief

sched_vars == <<kt_state, kt_cancelled, kt_wchan, old_ipl, tq_list, tq_size,
                curthr, ipl, mode, order>>

vars == <<kt_state, kt_cancelled, kt_wchan, old_ipl, tq_list, tq_size,
          curthr, ipl, mode, panicked, order, curproc, last_brk,
          tty, tty_last>>

----------------------------------------------------------------------------
\* Addresses and pages.  User memory is the pages 0 .. NumPages-1.
Pages == 0..(NumPages - 1)
USER_MEM_HIGH == NumPages * PAGE_SIZE
ADDR_TO_PN(a) == a \div PAGE_SIZE
PN_TO_ADDR(pn) == pn * PAGE_SIZE
PAGE_ALIGN_DOWN(a) == (a \div PAGE_SIZE) * PAGE_SIZE

PROT_READ == "PROT_READ"
PROT_WRITE == "PROT_WRITE"
PROT_EXEC == "PROT_EXEC"
Prots == {PROT_READ, PROT_WRITE, PROT_EXEC}

PROC_RUNNING == "PROC_RUNNING"
PROC_DEAD == "PROC_DEAD"

\* A proc_t: the loader's p_start_brk and p_brk, the vmmap as the set of its
\* vmareas, the page directory as the mapping installed for each page
\* (NoMapping where none is), and the exit status.
NoMapping == [pdflags |-> {}, ptflags |-> {}, pf_obj |-> NULL, pf_index |-> 0]

MkProc(start_brk, brk, vmmap) ==
    [p_start_brk |-> start_brk, p_brk |-> brk, p_vmmap |-> vmmap,
     p_pagedir |-> [pn \in Pages |-> NoMapping],
     p_state |-> PROC_RUNNING, p_status |-> 0, p_pid |-> 0]

IdleProc == MkProc(NULL, NULL, {})

\* thr->kt_proc: the idle process (pid 0) owns thread 1; every other process
\* has two threads.
kt_proc(thr) == [IdleProc EXCEPT !.p_pid = thr \div 2]

----------------------------------------------------------------------------
\* The kernel state as one record, so that the functions of sched.c compose.
\* Three fields are the outputs of a call and no part of the state: ret (the
\* value returned to the context that runs after the call), dispatched (the
\* call ended in a context switch) and acc (the queue accesses the call
\* made, each with the IPL it was made at).
St ==
    [kt_state |-> kt_state, kt_cancelled |-> kt_cancelled, kt_wchan |-> kt_wchan,
     old_ipl |-> old_ipl, tq_list |-> tq_list,
     tq_size |-> tq_size, curthr |-> curthr, ipl |-> ipl, mode |-> mode,
     panicked |-> panicked, order |-> order, curproc |-> curproc,
     ret |-> 0, dispatched |-> FALSE, acc |-> {}]

Set(s) ==
    /\ kt_state' = s.kt_state
    /\ kt_cancelled' = s.kt_cancelled
    /\ kt_wchan' = s.kt_wchan
    /\ old_ipl' = s.old_ipl
    /\ tq_list' = s.tq_list
    /\ tq_size' = s.tq_size
    /\ curthr' = s.curthr
    /\ ipl' = s.ipl
    /\ mode' = s.mode
    /\ panicked' = s.panicked
    /\ order' = s.order
    /\ curproc' = s.curproc
    /\ UNCHANGED <<last_brk, tty, tty_last>>

\* Sequence helpers.
Without(seq, x) == SelectSeq(seq, LAMBDA y : y # x)
Members(seq) == {seq[i] : i \in 1..Len(seq)}
IsPrefix(a, b) == Len(a) <= Len(b) /\ SubSeq(b, 1, Len(a)) = a

\* panic(): the kernel halts; nothing runs afterwards.
Panic(s) == [s EXCEPT !.panicked = TRUE]

\* A read or a mutation of queue q, at the IPL it is made at.
Access(s, q, kind) ==
    [s EXCEPT !.acc = @ \cup {[q |-> q, kind |-> kind, ipl |-> s.ipl]}]

\* sched_queue_empty(q)
sched_queue_empty(s, q) == s.tq_list[q] = <<>>

\* ktqueue_enqueue(q, thr): KASSERT(!thr->kt_wchan); insert at the head.
ktqueue_enqueue(s, q, thr) ==
    IF s.panicked THEN s
    ELSE IF s.kt_wchan[thr] # NULL THEN Panic(s)
    ELSE [Access(s, q, "enqueue") EXCEPT
            !.tq_list[q] = <<thr>> \o @,
            !.kt_wchan[thr] = q,
            !.tq_size[q] = @ + 1,
            !.order[q] = Append(@, thr)]

\* Mutant: the dequeued thread keeps its kt_wchan.
ktqueue_dequeue_keeps_wchan(s, q) ==
    IF s.panicked THEN s
    ELSE IF s.tq_list[q] = <<>> THEN [s EXCEPT !.ret = NULL]
    ELSE LET l == s.tq_list[q]
             thr == l[Len(l)]
         IN [Access(s, q, "dequeue") EXCEPT
                !.tq_list[q] = SubSeq(l, 1, Len(l) - 1),
                !.tq_size[q] = @ - 1,
                !.order[q] = Without(@, thr),
                !.ret = thr]

\* Mutant: the thread is taken from the head of the list (l_next), the end
\* ktqueue_enqueue inserts at.
ktqueue_dequeue_head(s, q) ==
    IF s.panicked THEN s
    ELSE IF s.tq_list[q] = <<>> THEN [s EXCEPT !.ret = NULL]
    ELSE LET l == s.tq_list[q]
             thr == l[1]
         IN [Access(s, q, "dequeue") EXCEPT
                !.tq_list[q] = Tail(l),
                !.kt_wchan[thr] = NULL,
                !.tq_size[q] = @ - 1,
                !.order[q] = Without(@, thr),
                !.ret = thr]

\* Mutant: the dequeue forgets q->tq_size--.
ktqueue_dequeue_keeps_size(s, q) ==
    IF s.panicked THEN s
    ELSE IF s.tq_list[q] = <<>> THEN [s EXCEPT !.ret = NULL]
    ELSE LET l == s.tq_list[q]
             thr == l[Len(l)]
         IN [Access(s, q, "dequeue") EXCEPT
                !.tq_list[q] = SubSeq(l, 1, Len(l) - 1),
                !.kt_wchan[thr] = NULL,
                !.order[q] = Without(@, thr),
                !.ret = thr]

\* ktqueue_dequeue(q): NULL on an empty list, else unlink and return the tail.
ktqueue_dequeue(s, q) ==
    IF s.panicked THEN s
    ELSE IF s.tq_list[q] = <<>> THEN [s EXCEPT !.ret = NULL]
    ELSE LET l == s.tq_list[q]
             thr == l[Len(l)]
         IN [Access(s, q, "dequeue") EXCEPT
                !.tq_list[q] = SubSeq(l, 1, Len(l) - 1),
                !.kt_wchan[thr] = NULL,
                !.tq_size[q] = @ - 1,
                !.order[q] = Without(@, thr),
                !.ret = thr]

\* ktqueue_remove(q, thr): unlink thr wherever it stands on q.  No function
\* of sched.c calls it.
ktqueue_remove(s, q, thr) ==
    IF s.panicked THEN s
    ELSE IF thr \notin Members(s.tq_list[q]) THEN Panic(s)
    ELSE [Access(s, q, "remove") EXCEPT
            !.tq_list[q] = Without(@, thr),
            !.kt_wchan[thr] = NULL,
            !.tq_size[q] = @ - 1,
            !.order[q] = Without(@, thr)]

\* Mutant: the run queue is changed without raising the IPL.
sched_make_runnable_no_raise(s, thr) ==
    IF s.panicked THEN s
    ELSE ktqueue_enqueue([s EXCEPT !.kt_state[thr] = KT_RUN], kt_runq, thr)

\* Mutant: the IPL is raised and never restored.
sched_make_runnable_no_restore(s, thr) ==
    IF s.panicked THEN s
    ELSE ktqueue_enqueue([s EXCEPT !.ipl = IPL_HIGH, !.kt_state[thr] = KT_RUN],
                         kt_runq, thr)

\* sched_make_runnable(thr): old_ipl = getipl; setipl(HIGH); state = KT_RUN;
\* enqueue on the run queue; setipl(old_ipl).
sched_make_runnable(s, thr) ==
    IF s.panicked THEN s
    ELSE LET s1 == [s EXCEPT !.ipl = IPL_HIGH, !.kt_state[thr] = KT_RUN]
             s2 == ktqueue_enqueue(s1, kt_runq, thr)
         IN IF s2.panicked THEN s2 ELSE [s2 EXCEPT !.ipl = s.ipl]

\* Mutant: the wait for an interrupt is issued without lowering the IPL.
switch_loop_wait_high(s) ==
    IF s.panicked THEN s
    ELSE LET s0 == Access(s, kt_runq, "empty")
         IN IF sched_queue_empty(s0, kt_runq)
            THEN [s0 EXCEPT !.mode = "intr_wait"]
            ELSE LET s1 == ktqueue_dequeue(s0, kt_runq)
                     new == s1.ret
                 IN [s1 EXCEPT !.curthr = new,
                               !.curproc = kt_proc(new),
                               !.ipl = s1.old_ipl[new],
                               !.old_ipl[new] = IPL_LOW,
                               !.mode = "run",
                               !.dispatched = TRUE,
                               !.ret = 0]

\* The loop and the dispatch of sched_switch, entered with IPL at HIGH:
\* while the run queue is empty, lower the IPL and wait for an interrupt;
\* otherwise dequeue, set curthr, switch context, and the resumed thread
\* restores the old_ipl of its own sched_switch frame and returns from it
\* (the frame is then dead: old_ipl goes back to its initial value).
switch_loop(s) ==
    IF s.panicked THEN s
    ELSE LET s0 == Access(s, kt_runq, "empty")
         IN IF sched_queue_empty(s0, kt_runq)
            THEN [s0 EXCEPT !.ipl = IPL_LOW, !.mode = "intr_wait"]
            ELSE LET s1 == ktqueue_dequeue(s0, kt_runq)
                     new == s1.ret
                 IN [s1 EXCEPT !.curthr = new,
                               !.curproc = kt_proc(new),
                               !.ipl = s1.old_ipl[new],
                               !.old_ipl[new] = IPL_LOW,
                               !.mode = "run",
                               !.dispatched = TRUE,
                               !.ret = 0]

\* sched_switch(): old_ipl = intr_getipl(); intr_setipl(IPL_HIGH); the loop.
sched_switch(s) ==
    IF s.panicked THEN s
    ELSE switch_loop([s EXCEPT !.old_ipl[s.curthr] = s.ipl,
                               !.ipl = IPL_HIGH])

\* sched_sleep_on(q)
sched_sleep_on(s, q) ==
    IF s.panicked THEN s
    ELSE LET s1 == [s EXCEPT !.kt_state[s.curthr] = KT_SLEEP]
             s2 == ktqueue_enqueue(s1, q, s.curthr)
         IN sched_switch(s2)

\* Mutant: kt_cancelled is not tested on entry.
sched_cancellable_sleep_on_unchecked(s, q) ==
    IF s.panicked THEN s
    ELSE LET s1 == [s EXCEPT !.kt_state[s.curthr] = KT_SLEEP_CANCELLABLE]
             s2 == sched_switch(ktqueue_enqueue(s1, q, s.curthr))
         IN IF s2.panicked THEN s2 ELSE [s2 EXCEPT !.ret = 0]

\* sched_cancellable_sleep_on(q): the state is set before kt_cancelled is
\* tested, and the EINTR return leaves it set.
sched_cancellable_sleep_on(s, q) ==
    IF s.panicked THEN s
    ELSE LET s1 == [s EXCEPT !.kt_state[s.curthr] = KT_SLEEP_CANCELLABLE]
         IN IF s1.kt_cancelled[s.curthr] = 1
            THEN [s1 EXCEPT !.ret = EINTR]
            ELSE LET s2 == sched_switch(ktqueue_enqueue(s1, q, s.curthr))
                 IN IF s2.panicked THEN s2 ELSE [s2 EXCEPT !.ret = 0]

\* sched_wakeup_on(q)
sched_wakeup_on(s, q) ==
    IF s.panicked THEN s
    ELSE LET s0 == Access(s, q, "empty")
         IN IF sched_queue_empty(s0, q)
            THEN [s0 EXCEPT !.ret = NULL]
            ELSE LET s1 == ktqueue_dequeue(s0, q)
                     kthr_tmp == s1.ret
                     s2 == sched_make_runnable(s1, kthr_tmp)
                 IN IF s2.panicked THEN s2 ELSE [s2 EXCEPT !.ret = kthr_tmp]

\* sched_broadcast_on(q): while (!sched_queue_empty(q)) sched_wakeup_on(q);
RECURSIVE sched_broadcast_on(_, _)
sched_broadcast_on(s, q) ==
    IF s.panicked THEN s
    ELSE LET s0 == Access(s, q, "empty")
         IN IF sched_queue_empty(s0, q)
            THEN [s0 EXCEPT !.ret = 0]
            ELSE sched_broadcast_on(sched_wakeup_on(s0, q), q)

\* The call ktqueue_dequeue(&kthr->kt_wchan, kthr) of sched_cancel.  Its
\* argument is the address of the kt_wchan field, not the queue, and
\* ktqueue_dequeue takes one argument: the call has no defined meaning.
\* The outcomes kept are (a) the callee walks the thread structure as if it
\* were a queue and faults, and (b) the callee is reached with the queue
\* kt_wchan points to and unlinks that queue's tail, whichever thread that
\* is; a null kt_wchan faults in both.
cancel_dequeue(s, kthr) ==
    {Panic(s)} \cup
    {IF s.kt_wchan[kthr] = NULL THEN Panic(s)
     ELSE ktqueue_dequeue(s, s.kt_wchan[kthr])}

\* Mutant: kt_cancelled counts the cancellations.
sched_cancel_counts(s, kthr) ==
    IF s.panicked THEN {s}
    ELSE IF s.kt_state[kthr] = KT_SLEEP_CANCELLABLE
    THEN LET s1 == [s EXCEPT !.kt_cancelled[kthr] = @ + 1]
         IN {[sched_make_runnable(d, kthr) EXCEPT !.ret = 0] :
                d \in cancel_dequeue(s1, kthr)}
    ELSE {[s EXCEPT !.kt_cancelled[kthr] = @ + 1]}

\* sched_cancel(kthr): the set of outcomes.
sched_cancel(s, kthr) ==
    IF s.panicked THEN {s}
    ELSE IF s.kt_state[kthr] = KT_SLEEP_CANCELLABLE
    THEN LET s1 == [s EXCEPT !.kt_cancelled[kthr] = 1]
         IN {[sched_make_runnable(d, kthr) EXCEPT !.ret = 0] :
                d \in cancel_dequeue(s1, kthr)}
    ELSE {[s EXCEPT !.kt_cancelled[kthr] = 1]}

----------------------------------------------------------------------------
\* A tty after tty_create and attach: the driver has no I/O block
\* outstanding, the line discipline has buffered nothing, no caller is in a
\* tty call.
Callers == 1..NumCallers
NewTty ==
    [blocked |-> {}, ld_buf |-> <<>>,
     frames |-> [t \in Callers |-> [pc |-> "idle", ret |-> NULL, count |-> 0]]]
NoCall == [op |-> "none", short |-> FALSE, processed |-> FALSE, expanded |-> FALSE]

----------------------------------------------------------------------------
\* The state after sched_init and the bootstrap: the run queue and the wait
\* queues are empty (sched_queue_init), thread 1 is the running idle
\* context, the other threads are created and not yet made runnable.  The
\* IPL the boot context runs at is an input; a created thread starts at
\* IPL_LOW.
SchedInit ==
    /\ kt_state = [t \in Threads |-> IF t = 1 THEN KT_RUN ELSE KT_NO_STATE]
    /\ kt_cancelled = [t \in Threads |-> 0]
    /\ kt_wchan = [t \in Threads |-> NULL]
    /\ old_ipl = [t \in Threads |-> IPL_LOW]
    /\ tq_list = [q \in Queues |-> <<>>]
    /\ tq_size = [q \in Queues |-> 0]
    /\ curthr = 1
    /\ ipl \in IPLs
    /\ mode = "run"
    /\ panicked = FALSE
    /\ order = [q \in Queues |-> <<>>]

\* The scheduler is exercised from the idle process, which has no user
\* address space.
Init ==
    /\ SchedInit
    /\ curproc = IdleProc
    /\ last_brk = NULL
    /\ tty = NewTty
    /\ tty_last = NoCall

\* An interrupt handler that ran while sched_switch waits ends the wait.
Woken(s) == IF s.mode = "run" THEN s ELSE [s EXCEPT !.mode = "intr_woken"]

\* While sched_switch waits, only interrupt handlers run, and an interrupt
\* is delivered only with the IPL at LOW.
Deliverable == mode = "run" \/ ipl = IPL_LOW

\* sched_make_runnable on a newly created thread, from thread or interrupt
\* context.
MakeRunnable ==
    /\ ~panicked /\ Deliverable
    /\ \E t \in Threads :
        /\ kt_state[t] = KT_NO_STATE
        /\ Set(Woken(sched_make_runnable(St, t)))

\* sched_wakeup_on(q), from thread or interrupt context.
WakeupOn ==
    /\ ~panicked /\ Deliverable
    /\ \E q \in WaitQs :
        Set(Woken(sched_wakeup_on(St, q)))

\* sched_broadcast_on(q), from thread or interrupt context.
BroadcastOn ==
    /\ ~panicked /\ Deliverable
    /\ \E q \in WaitQs :
        Set(Woken(sched_broadcast_on(St, q)))

\* sched_sleep_on(q) by the current thread.
SleepOn ==
    /\ ~panicked /\ mode = "run"
    /\ \E q \in WaitQs : Set(sched_sleep_on(St, q))

\* sched_cancellable_sleep_on(q) by the current thread.
CancellableSleepOn ==
    /\ ~panicked /\ mode = "run"
    /\ \E q \in WaitQs :
        Set(sched_cancellable_sleep_on(St, q))

\* sched_cancel(kthr) by the current thread.
CancelOf(t) ==
    /\ ~panicked /\ mode = "run"
    /\ \E s \in sched_cancel(St, t) : Set(s)

Cancel == \E t \in Threads : CancelOf(t)

\* sched_switch() called directly by the current thread.  A thread that
\* switches away while on no queue is never run again (sched.c, above
\* sched_cancel), so the direct caller is the exiting thread: the exit path,
\* which is outside sched.c, has set its state to KT_EXITED.
Exit ==
    /\ ~panicked /\ mode = "run"
    /\ Set(sched_switch([St EXCEPT !.kt_state[curthr] = KT_EXITED]))

\* intr_wait returned inside sched_switch: intr_setipl(IPL_HIGH) and the
\* loop tests the run queue again.
SwitchResume ==
    /\ ~panicked /\ mode = "intr_woken"
    /\ Set(switch_loop([St EXCEPT !.ipl = IPL_HIGH]))

Next ==
    \/ MakeRunnable
    \/ WakeupOn
    \/ BroadcastOn
    \/ SleepOn
    \/ CancellableSleepOn
    \/ Cancel
    \/ Exit
    \/ SwitchResume

Spec == Init /\ [][Next]_vars

\* sched_switch seen apart from sched_cancel, which a running thread calls
\* and which has no part in the wait loop.
NextSwitch ==
    \/ MakeRunnable
    \/ WakeupOn
    \/ BroadcastOn
    \/ SleepOn
    \/ CancellableSleepOn
    \/ Exit
    \/ SwitchResume

\* The step SwitchResume takes, told by what it does to mode: no other step
\* leaves "intr_woken".
LoopStep ==
    /\ ~panicked /\ mode = "intr_woken"
    /\ mode' = switch_loop([St EXCEPT !.ipl = IPL_HIGH]).mode

\* The CPU goes on once intr_wait has returned: the continuation of
\* sched_switch's loop is taken if it stays possible.  Nothing is assumed of
\* the interrupts themselves.
SpecSwitch == Init /\ [][NextSwitch]_vars /\ WF_mode(LoopStep)

----------------------------------------------------------------------------
\* P holds of every call that can be made in the current state, each call
\* given by the state and the outputs it ends with: the calls of the current
\* thread, those open to interrupt handlers too, and the continuation of
\* sched_switch's wait loop.
ForAllCalls(P(_)) ==
    ~panicked =>
        /\ mode = "run" =>
            /\ \A q \in WaitQs : P(sched_sleep_on(St, q))
            /\ \A q \in WaitQs : P(sched_cancellable_sleep_on(St, q))
            /\ \A t \in Threads : \A s \in sched_cancel(St, t) : P(s)
            /\ P(sched_switch([St EXCEPT !.kt_state[curthr] = KT_EXITED]))
        /\ \A t \in Threads :
            kt_state[t] = KT_NO_STATE => P(sched_make_runnable(St, t))
        /\ \A q \in WaitQs : P(sched_wakeup_on(St, q))
        /\ \A q \in WaitQs : P(sched_broadcast_on(St, q))
        /\ mode = "intr_woken" => P(switch_loop([St EXCEPT !.ipl = IPL_HIGH]))

Linked(t, q) == t \in Members(tq_list[q])
Sleeping(t) == kt_state[t] \in {KT_SLEEP, KT_SLEEP_CANCELLABLE}

\* C1: whenever execution is outside sched_switch, one thread is current,
\* its state is KT_RUN and its wait channel is null.
CurrentThreadIsRunnable ==
    (mode = "run" /\ ~panicked) =>
        /\ curthr \in Threads
        /\ kt_state[curthr] = KT_RUN
        /\ kt_wchan[curthr] = NULL

\* C2: a thread is linked on queue q exactly when its kt_wchan is q, so it
\* is linked on at most one queue, once, and kt_wchan is null exactly when
\* it is on no queue.
LinkedIffWchan ==
    /\ \A t \in Threads : kt_wchan[t] \in Queues \cup {NULL}
    /\ \A t \in Threads : \A q \in Queues : Linked(t, q) <=> kt_wchan[t] = q
    /\ \A q \in Queues : Cardinality(Members(tq_list[q])) = Len(tq_list[q])

\* C2 witness: a sleeper on a wait queue while a cancelled thread that was
\* taken off its queue waits on the run queue.
LinkedWitness ==
    /\ ~panicked
    /\ \E t, u \in Threads :
        /\ Sleeping(t) /\ kt_wchan[t] \in WaitQs /\ Linked(t, kt_wchan[t])
        /\ kt_cancelled[u] = 1 /\ kt_wchan[u] = kt_runq /\ Linked(u, kt_runq)

\* C3: outside a scheduler operation every sleeping thread is linked on a
\* wait queue, every runnable thread but the current one is linked on the
\* run queue, and no thread that has been made runnable and has not exited
\* is off every queue unless it is current.
EveryThreadReachable ==
    (mode = "run" /\ ~panicked) =>
        \A t \in Threads :
            /\ Sleeping(t) => \E q \in WaitQs : Linked(t, q)
            /\ (kt_state[t] = KT_RUN /\ t # curthr) => Linked(t, kt_runq)
            /\ (kt_state[t] \notin {KT_NO_STATE, KT_EXITED} /\ t # curthr)
                    => \E q \in Queues : Linked(t, q)

\* C4: cancel(t) on a thread in cancellable sleep on q removes exactly t
\* from q, leaving the other sleepers in order, sets t's cancelled flag,
\* makes t runnable and puts it on the run queue.
CancelRemovesExactlyTarget ==
    [][\A t \in Threads :
        (/\ kt_state[t] = KT_SLEEP_CANCELLABLE
         /\ kt_wchan[t] \in WaitQs
         /\ CancelOf(t))
        => /\ ~panicked'
           /\ tq_list'[kt_wchan[t]] = Without(tq_list[kt_wchan[t]], t)
           /\ kt_cancelled'[t] = 1
           /\ kt_state'[t] = KT_RUN
           /\ kt_wchan'[t] = kt_runq
           /\ tq_list'[kt_runq] = <<t>> \o tq_list[kt_runq]]_vars

\* C5: with the current thread's cancelled flag set, cancellable_sleep_on(q)
\* returns EINTR, touches no queue and does not switch: every queue, every
\* wait channel and the current thread are as before.
CancelledSleepReturnsEINTR ==
    (mode = "run" /\ ~panicked /\ kt_cancelled[curthr] = 1) =>
        \A q \in WaitQs :
            LET r == sched_cancellable_sleep_on(St, q)
            IN /\ r.ret = EINTR
               /\ r.acc = {}
               /\ ~r.dispatched /\ r.mode = "run" /\ ~r.panicked
               /\ r.curthr = curthr
               /\ r.tq_list = tq_list /\ r.tq_size = tq_size
               /\ r.kt_wchan = kt_wchan
               /\ r.ipl = ipl /\ r.old_ipl = old_ipl

\* C5 witness: the state the EINTR return leaves: a cancelled current
\* thread, on no queue, that has entered cancellable_sleep_on.
EINTRWitness ==
    /\ mode = "run" /\ ~panicked
    /\ kt_cancelled[curthr] = 1
    /\ kt_state[curthr] = KT_SLEEP_CANCELLABLE
    /\ kt_wchan[curthr] = NULL
    /\ \A q \in Queues : ~Linked(curthr, q)

\* What C6 compares: thread states, cancelled flags, wait channels, the
\* contents of every queue, and whether the kernel still runs.
Observable(s) ==
    [kt_state |-> s.kt_state, kt_cancelled |-> s.kt_cancelled,
     kt_wchan |-> s.kt_wchan, tq_list |-> s.tq_list, tq_size |-> s.tq_size,
     curthr |-> s.curthr, panicked |-> s.panicked]

RunQueueFifo ==
    [][~IsPrefix(order[kt_runq], order'[kt_runq]) =>
        /\ order[kt_runq] # <<>>
        /\ curthr' = Head(order[kt_runq])
        /\ kt_wchan'[curthr'] = NULL
        /\ IsPrefix(Tail(order[kt_runq]), order'[kt_runq])]_vars

\* C7 witness: two threads were runnable together, the one made runnable
\* first now runs and the other is still on the run queue.
FifoWitness ==
    /\ mode = "run" /\ ~panicked
    /\ curthr # 1 /\ Sleeping(1)
    /\ Len(tq_list[kt_runq]) >= 1
    /\ order[kt_runq] # <<>>

\* The parts of the state a call on a wait queue may change.
Program(s) ==
    [kt_state |-> s.kt_state, kt_cancelled |-> s.kt_cancelled,
     kt_wchan |-> s.kt_wchan, old_ipl |-> s.old_ipl, tq_list |-> s.tq_list,
     tq_size |-> s.tq_size, curthr |-> s.curthr, ipl |-> s.ipl,
     panicked |-> s.panicked, order |-> s.order]

\* C8: wakeup_on(q) wakes the thread that has slept on q the longest and
\* appends it to the run queue; on an empty q it returns NULL and changes
\* nothing; broadcast_on(q) empties q and appends its sleepers to the run
\* queue in the order in which they went to sleep.
WaitQueueFifo ==
    ~panicked =>
        \A q \in WaitQs :
            LET w == sched_wakeup_on(St, q)
                b == sched_broadcast_on(St, q)
            IN /\ IF order[q] = <<>>
                  THEN w.ret = NULL /\ Program(w) = Program(St)
                  ELSE /\ w.ret = Head(order[q])
                       /\ w.order[q] = Tail(order[q])
                       /\ w.order[kt_runq] = Append(order[kt_runq], Head(order[q]))
                       /\ w.tq_list[kt_runq] = <<Head(order[q])>> \o tq_list[kt_runq]
                       /\ w.kt_state[w.ret] = KT_RUN
                       /\ ~w.panicked
               /\ b.tq_list[q] = <<>> /\ b.order[q] = <<>>
               /\ b.order[kt_runq] = order[kt_runq] \o order[q]
               /\ \A t \in Members(order[q]) : b.kt_state[t] = KT_RUN
               /\ ~b.panicked

\* C8 witness: thread 1 went to sleep, was woken and waits on the run queue
\* behind nobody older, with a later arrival queued after it.
WakeWitness ==
    /\ mode = "run" /\ ~panicked
    /\ Len(order[kt_runq]) >= 2
    /\ Head(order[kt_runq]) = 1
    /\ kt_cancelled[1] = 0
    /\ \A q \in WaitQs : tq_list[q] = <<>>

\* C9: every read and every mutation of the run queue is made with the IPL
\* at HIGH, whichever call it is made in.
RunQueueAccessesHigh(r) == \A a \in r.acc : a.q = kt_runq => a.ipl = IPL_HIGH

RunQueueAtIplHigh == ForAllCalls(RunQueueAccessesHigh)

\* C9 witness: with the IPL at LOW, threads have been put on the run queue
\* and taken off it.
IplWitness ==
    /\ mode = "run" /\ ~panicked /\ ipl = IPL_LOW
    /\ tq_list[kt_runq] # <<>>
    /\ curthr # 1

\* C10 as stated: every enqueue and dequeue, on any queue, is made with the
\* IPL at HIGH.
MutationsHigh(r) ==
    \A a \in r.acc : a.kind \in {"enqueue", "dequeue"} => a.ipl = IPL_HIGH

EveryMutationAtIplHigh == ForAllCalls(MutationsHigh)

\* C10 as amended: the run queue is only touched at IPL HIGH, and
\* sched_make_runnable and sched_switch save the IPL and restore it (for
\* sched_switch, the resumed thread restores the IPL its own frame saved);
\* the wait-queue accesses of sleep_on, cancellable_sleep_on, wakeup_on,
\* broadcast_on and cancel are made at the caller's IPL, not raised.
SaveRaiseRestore(r) ==
    /\ \A a \in r.acc :
        IF a.q = kt_runq THEN a.ipl = IPL_HIGH ELSE a.ipl = ipl
    /\ ~r.panicked =>
        r.ipl = IF r.dispatched THEN old_ipl[r.curthr]
                ELSE IF r.mode = "intr_wait" THEN IPL_LOW
                ELSE ipl
    /\ (~r.panicked /\ mode = "run" /\ (r.dispatched \/ r.mode = "intr_wait"))
        => r.old_ipl[curthr] = ipl

IplDiscipline == ForAllCalls(SaveRaiseRestore)

\* C10 witness: a thread that went to sleep at IPL HIGH is suspended with
\* HIGH saved in its frame while the thread that replaced it runs at LOW.
IplSavedWitness ==
    /\ mode = "run" /\ ~panicked /\ ipl = IPL_LOW
    /\ \E t \in Threads : t # curthr /\ Sleeping(t) /\ old_ipl[t] = IPL_HIGH

\* C11: in every reachable state and for every queue q, the run queue
\* included, q.tq_size is the number of threads linked on q.
SizeCountsLinked ==
    \A q \in Queues :
        tq_size[q] = Cardinality({t \in Threads : Linked(t, q)})

\* Two threads wait on one queue after the scheduler has dequeued another.
SizeWitness ==
    /\ ~panicked
    /\ curthr # 1
    /\ \E q \in Queues : tq_size[q] = 2 /\ Len(tq_list[q]) = 2

\* sched_switch is in its loop, between the test of the run queue and the
\* next one.
InWaitLoop == mode \in {"intr_wait", "intr_woken"}

\* What a call that reached sched_switch's test of the run queue ends with
\* (a call made while the switch waits is an interrupt handler's and reaches
\* no such test).  On an empty run queue: nothing is dequeued, the interrupt wait is issued
\* with the IPL at LOW, curthr and curproc stay.  Otherwise: the thread at
\* the tail of the run queue is taken off and becomes curthr, and its
\* process becomes curproc.
SwitchWaitsOrInstalls(r) ==
    LET l == tq_list[kt_runq]
    IN  /\ (r.mode = "intr_wait" /\ mode # "intr_wait") =>
            /\ l = <<>> /\ r.tq_list[kt_runq] = <<>>
            /\ ~r.dispatched
            /\ ~\E a \in r.acc : a.q = kt_runq /\ a.kind = "dequeue"
            /\ r.ipl = IPL_LOW
            /\ r.curthr = curthr /\ r.curproc = curproc
        /\ r.dispatched =>
            /\ l # <<>>
            /\ r.curthr = l[Len(l)]
            /\ r.curproc = kt_proc(r.curthr)
            /\ r.tq_list[kt_runq] = SubSeq(l, 1, Len(l) - 1)
            /\ r.mode = "run"

\* While sched_switch waits the IPL is LOW and the run queue is empty; no
\* call dequeues from an empty run queue or waits with the IPL at HIGH; when
\* the wait ends the loop waits again on an empty run queue and dispatches
\* otherwise.
SwitchLoopSafe ==
    /\ mode = "intr_wait" => (ipl = IPL_LOW /\ tq_list[kt_runq] = <<>>)
    /\ InWaitLoop => ~panicked
    /\ ~panicked => curproc = kt_proc(curthr)
    /\ ForAllCalls(SwitchWaitsOrInstalls)
    /\ mode = "intr_woken" =>
        LET r == switch_loop([St EXCEPT !.ipl = IPL_HIGH])
        IN  IF tq_list[kt_runq] = <<>> THEN r.mode = "intr_wait" ELSE r.dispatched

\* C21: sched_switch never dequeues from an empty run queue: while the run
\* queue is empty it only lowers the IPL to LOW, waits for an interrupt and
\* raises the IPL to HIGH again, and never waits with the IPL at HIGH; once
\* an interrupt handler has put a thread on the run queue, the switch
\* leaves the loop and installs the thread taken from the run queue as
\* curthr and its process as curproc.
SwitchWaitsThenInstalls ==
    /\ []SwitchLoopSafe
    /\ (InWaitLoop /\ tq_list[kt_runq] # <<>>) ~> (mode = "run")

\* An interrupt handler has made a thread runnable while sched_switch
\* waited with the run queue empty.
SwitchWokenWitness ==
    /\ mode = "intr_woken"
    /\ ipl = IPL_LOW
    /\ tq_list[kt_runq] # <<>>
    /\ kt_state[curthr] = KT_EXITED

----------------------------------------------------------------------------
\* Virtual memory: the page-fault handler and the heap-break manager.

\* A vmarea_t covers the pages vma_start .. vma_end-1.
MkArea(start, end, prot, off, obj) ==
    [vma_start |-> start, vma_end |-> end, vma_prot |-> prot,
     vma_off |-> off, vma_obj |-> obj]

NoArea == MkArea(0, 0, {}, 0, NULL)

Contains(a, vfn) == a.vma_start <= vfn /\ vfn < a.vma_end
Overlap(a, b) == a.vma_start < b.vma_end /\ b.vma_start < a.vma_end

\* vmmap_lookup(map, vfn): the area that contains page vfn, or none.
vmmap_lookup(map, vfn) ==
    IF \E a \in map : Contains(a, vfn)
    THEN CHOOSE a \in map : Contains(a, vfn)
    ELSE NoArea

\* vmmap_is_range_empty(map, startvfn, npages): no area holds a page of
\* startvfn .. startvfn+npages-1.
vmmap_is_range_empty(map, startvfn, npages) ==
    \A a \in map :
        ~(a.vma_start < startvfn + npages /\ startvfn < a.vma_end)

\* The process state as one record, with the outputs of a call: ret (the
\* value returned), brk_out (what the call stored through its ret
\* argument), returned (the call came back to its caller), and the calls it
\* made to the memory object and the page table, in order.
Vm ==
    [proc |-> curproc, panicked |-> panicked,
     ret |-> 0, brk_out |-> NULL, returned |-> FALSE,
     lookups |-> <<>>, dirtied |-> <<>>, mapped |-> <<>>]

SetVm(r) ==
    /\ curproc' = r.proc
    /\ panicked' = r.panicked
    /\ UNCHANGED <<sched_vars, tty, tty_last>>

\* do_exit(status): the process is terminated; the call does not return.
do_exit(p, status) ==
    [p EXCEPT !.proc.p_state = PROC_DEAD, !.proc.p_status = status]

FAULT_WRITE == "FAULT_WRITE"
FAULT_USER == "FAULT_USER"
FAULT_EXEC == "FAULT_EXEC"
PD_PRESENT == "PD_PRESENT"
PD_WRITE == "PD_WRITE"
PD_USER == "PD_USER"
PT_PRESENT == "PT_PRESENT"
PT_WRITE == "PT_WRITE"
PT_USER == "PT_USER"

\* The causes the trap handler passes on: user mode always, write and exec
\* in every combination.
Causes == {c \cup {FAULT_USER} : c \in SUBSET {FAULT_WRITE, FAULT_EXEC}}

\* What the collaborators of one fault answer: the result of pframe_lookup,
\* of pframe_dirty and of pt_map, each 0 or a negative errno.
Envs == [lookup_err : {0, -ENOMEM}, dirty_err : {0, -ENOMEM},
         map_err : {0, -ENOMEM}]

\* Mutant: the exec permission is never asked for.
fault_permitted_no_exec(area, cause) ==
    /\ (FAULT_WRITE \notin cause => PROT_READ \in area.vma_prot)
    /\ (FAULT_WRITE \in cause => PROT_WRITE \in area.vma_prot)

\* The permission checks of handle_pagefault: each missing permission ends
\* in do_exit(EFAULT).
fault_permitted(area, cause) ==
    /\ (FAULT_WRITE \notin cause => PROT_READ \in area.vma_prot)
    /\ (FAULT_WRITE \in cause => PROT_WRITE \in area.vma_prot)
    /\ (FAULT_EXEC \in cause => PROT_EXEC \in area.vma_prot)

\* Mutant: write handling follows the area's protection.
fault_forwrite_by_prot(area, cause) ==
    IF PROT_WRITE \in area.vma_prot THEN 1 ELSE 0

\* forwrite, and with it PD_WRITE and PT_WRITE, is set under
\* (cause & FAULT_WRITE).
fault_forwrite(area, cause) ==
    IF FAULT_WRITE \in cause THEN 1 ELSE 0

\* handle_pagefault(vaddr, cause), with the answers env of its collaborators.
handle_pagefault(p, vaddr, cause, env) ==
    LET pagenum == ADDR_TO_PN(vaddr)
        area == vmmap_lookup(p.proc.p_vmmap, pagenum)
    IN  IF area = NoArea THEN do_exit(p, EFAULT)
        ELSE IF ~fault_permitted(area, cause) THEN do_exit(p, EFAULT)
        ELSE
        LET forwrite == fault_forwrite(area, cause)
            pdflags == {PD_PRESENT, PD_USER}
                         \cup (IF forwrite = 1 THEN {PD_WRITE} ELSE {})
            ptflags == {PT_PRESENT, PT_USER}
                         \cup (IF forwrite = 1 THEN {PT_WRITE} ELSE {})
            index == pagenum - area.vma_start + area.vma_off
            looked == [p EXCEPT !.lookups = Append(@,
                         [obj |-> area.vma_obj, index |-> index,
                          forwrite |-> forwrite])]
            pf == [pf_obj |-> area.vma_obj, pf_index |-> index]
            dirty == IF forwrite = 1
                     THEN [looked EXCEPT !.dirtied = Append(@, pf)]
                     ELSE looked
        IN  IF env.lookup_err < 0 THEN do_exit(looked, EFAULT)
            ELSE IF forwrite = 1 /\ env.dirty_err # 0 THEN Panic(dirty)
            ELSE IF env.map_err # 0 THEN Panic(dirty)
            ELSE [dirty EXCEPT
                    !.proc.p_pagedir[pagenum] =
                        [pdflags |-> pdflags, ptflags |-> ptflags,
                         pf_obj |-> pf.pf_obj, pf_index |-> pf.pf_index],
                    !.mapped = Append(@,
                        [vaddr |-> PN_TO_ADDR(pagenum), pf |-> pf,
                         pdflags |-> pdflags, ptflags |-> ptflags]),
                    !.returned = TRUE]

\* The address spaces a fault is taken in: none, or an area of one or two
\* pages with any protection, at offset 0 or MaxOff into its object, alone or
\* followed by a second, readable area of one page.
MaxOff == 1
FaultAreas ==
    {MkArea(s, e, prot, off, 1) :
        s \in Pages, e \in 1..NumPages, prot \in SUBSET Prots, off \in {0, MaxOff}}
FirstAreas ==
    {a \in FaultAreas : a.vma_start < a.vma_end /\ a.vma_end <= a.vma_start + 2}
SecondAreas(a) ==
    {MkArea(a.vma_end, a.vma_end + 1, prot, 0, 2) :
        prot \in {{PROT_READ}, {PROT_READ, PROT_WRITE}}}
FaultMaps ==
    {{}}
    \cup {{a} : a \in FirstAreas}
    \cup UNION {{{a, b} : b \in {x \in SecondAreas(a) : x.vma_end <= NumPages}} :
                    a \in FirstAreas}

InitFault ==
    /\ SchedInit /\ ipl = IPL_LOW
    /\ tty = NewTty /\ tty_last = NoCall
    /\ last_brk = NULL
    /\ \E m \in FaultMaps :
        /\ \A a, b \in m : a # b => ~Overlap(a, b)
        /\ curproc = MkProc(NULL, NULL, m)

\* A user access of the current process faults.
PageFault ==
    /\ ~panicked /\ curproc.p_state = PROC_RUNNING
    /\ \E vaddr \in 0..(USER_MEM_HIGH - 1), cause \in Causes, env \in Envs :
        SetVm(handle_pagefault(Vm, vaddr, cause, env))
    /\ UNCHANGED last_brk

NextFault == PageFault

SpecFault == InitFault /\ [][NextFault]_vars

----------------------------------------------------------------------------
\* P holds of every fault the running process can take in the current
\* state: the faulting address, the cause and the collaborators' answers.
ForAllFaults(P(_, _, _)) ==
    (~panicked /\ curproc.p_state = PROC_RUNNING) =>
        \A vaddr \in 0..(USER_MEM_HIGH - 1), cause \in Causes, env \in Envs :
            P(vaddr, cause, env)

\* The ways a call of handle_pagefault can end.
Resolved(r) ==
    /\ r.returned /\ ~r.panicked
    /\ r.proc.p_state = PROC_RUNNING
    /\ Len(r.mapped) = 1
    /\ \E pn \in Pages :
        /\ r.mapped[1].vaddr = pn * PAGE_SIZE
        /\ PT_PRESENT \in r.proc.p_pagedir[pn].ptflags
        /\ \A o \in Pages \ {pn} : r.proc.p_pagedir[o] = curproc.p_pagedir[o]
Killed(r) ==
    /\ ~r.returned /\ ~r.panicked
    /\ r.proc.p_state = PROC_DEAD /\ r.proc.p_status = EFAULT
    /\ r.mapped = <<>>
    /\ r.proc.p_pagedir = curproc.p_pagedir
Halted(r) ==
    /\ ~r.returned /\ r.panicked
    /\ r.proc.p_state = PROC_RUNNING
    /\ r.mapped = <<>>
    /\ r.proc.p_pagedir = curproc.p_pagedir

\* The conditions on the fault, read off the address space.
AreasAt(vaddr) == {a \in curproc.p_vmmap : Contains(a, vaddr \div PAGE_SIZE)}
MissingPermission(vaddr, cause) ==
    \E a \in AreasAt(vaddr) :
        \/ FAULT_WRITE \notin cause /\ PROT_READ \notin a.vma_prot
        \/ FAULT_WRITE \in cause /\ PROT_WRITE \notin a.vma_prot
        \/ FAULT_EXEC \in cause /\ PROT_EXEC \notin a.vma_prot
Refused(vaddr, cause) == AreasAt(vaddr) = {} \/ MissingPermission(vaddr, cause)

TerminatesExactlyWhen(vaddr, cause, env) ==
    LET r == handle_pagefault(Vm, vaddr, cause, env)
    IN  /\ Killed(r) <=> (Refused(vaddr, cause) \/ env.lookup_err < 0)
        /\ Refused(vaddr, cause) => r.lookups = <<>>

InstallsOrTerminates(vaddr, cause, env) ==
    LET r == handle_pagefault(Vm, vaddr, cause, env)
    IN  /\ Resolved(r) \/ Killed(r)
        /\ TerminatesExactlyWhen(vaddr, cause, env)

InstallsTerminatesOrHalts(vaddr, cause, env) ==
    LET r == handle_pagefault(Vm, vaddr, cause, env)
        asserted == \/ FAULT_WRITE \in cause /\ env.dirty_err # 0
                    \/ env.map_err # 0
    IN  /\ Resolved(r) \/ Killed(r) \/ Halted(r)
        /\ TerminatesExactlyWhen(vaddr, cause, env)
        /\ Halted(r) <=> (~Killed(r) /\ asserted)

WriteHandling(vaddr, cause, env) ==
    LET r == handle_pagefault(Vm, vaddr, cause, env)
        pn == vaddr \div PAGE_SIZE
        w == FAULT_WRITE \in cause
    IN  Resolved(r) =>
        \E a \in AreasAt(vaddr) :
          LET pf == [pf_obj |-> a.vma_obj,
                     pf_index |-> pn - a.vma_start + a.vma_off]
          IN  /\ r.lookups = <<[obj |-> a.vma_obj, index |-> pf.pf_index,
                                forwrite |-> IF w THEN 1 ELSE 0]>>
              /\ r.dirtied = IF w THEN <<pf>> ELSE <<>>
              /\ r.mapped[1].pf = pf
              /\ r.mapped[1].pdflags =
                    {PD_PRESENT, PD_USER} \cup (IF w THEN {PD_WRITE} ELSE {})
              /\ r.mapped[1].ptflags =
                    {PT_PRESENT, PT_USER} \cup (IF w THEN {PT_WRITE} ELSE {})
              /\ r.proc.p_pagedir[pn].pdflags = r.mapped[1].pdflags
              /\ r.proc.p_pagedir[pn].ptflags = r.mapped[1].ptflags
              /\ (w => PROT_WRITE \in a.vma_prot)

\* C13: in every resolved fault the write-fault bit alone decides write
\* handling: for_write of the lookup (made at index pagenum - start +
\* offset), the dirty call, and the write flag beside {present, user} in the
\* page-directory and page-table flags; so no writable mapping is ever
\* installed in an area without PROT_WRITE.
WriteFaultDecidesWriteHandling ==
    /\ ForAllFaults(WriteHandling)
    /\ \A pn \in Pages :
        PT_WRITE \in curproc.p_pagedir[pn].ptflags =>
            \E a \in curproc.p_vmmap : Contains(a, pn) /\ PROT_WRITE \in a.vma_prot

\* A read fault on a READ|WRITE area has installed a mapping without the
\* write flag, and a write fault a mapping with it.
ReadFaultWitness ==
    /\ \E pn \in Pages, a \in curproc.p_vmmap :
        /\ Contains(a, pn)
        /\ {PROT_READ, PROT_WRITE} \subseteq a.vma_prot
        /\ curproc.p_pagedir[pn].ptflags = {PT_PRESENT, PT_USER}
        /\ curproc.p_pagedir[pn].pdflags = {PD_PRESENT, PD_USER}
    /\ \E pn \in Pages : PT_WRITE \in curproc.p_pagedir[pn].ptflags

----------------------------------------------------------------------------
\* The heap-break manager.

\* Mutant: do_brk(NULL) answers the start of the heap.
brk_null_start(p) ==
    [p EXCEPT !.brk_out = p.proc.p_start_brk, !.ret = 0, !.returned = TRUE]

\* addr == NULL: *ret = curproc->p_brk; return 0.
brk_null(p) ==
    [p EXCEPT !.brk_out = p.proc.p_brk, !.ret = 0, !.returned = TRUE]

\* return -ENOMEM.
brk_refuse(p) == [p EXCEPT !.ret = -ENOMEM, !.returned = TRUE]

\* Mutant: the area ends at hipage, one page short.
brk_set_short(p, area, hipage, addr) ==
    [p EXCEPT
        !.proc.p_vmmap = (@ \ {area}) \cup {[area EXCEPT !.vma_end = hipage]},
        !.proc.p_brk = addr,
        !.brk_out = addr, !.ret = 0, !.returned = TRUE]

\* area->vma_end = hipage + 1; *ret = addr; curproc->p_brk = addr; return 0.
brk_set(p, area, hipage, addr) ==
    [p EXCEPT
        !.proc.p_vmmap = (@ \ {area}) \cup {[area EXCEPT !.vma_end = hipage + 1]},
        !.proc.p_brk = addr,
        !.brk_out = addr, !.ret = 0, !.returned = TRUE]

\* The pages from the area's end up to hipage are free.
brk_may_grow(p, area, hipage) ==
    vmmap_is_range_empty(p.proc.p_vmmap, area.vma_end,
                         hipage - area.vma_end + 1)

\* Mutant: a refused growth leaves the area ending where it could grow to.
brk_refuse_grown(p, area, hipage) ==
    [p EXCEPT
        !.proc.p_vmmap = (@ \ {area}) \cup {[area EXCEPT !.vma_end = hipage]},
        !.ret = -ENOMEM, !.returned = TRUE]

\* The growth is refused: return -ENOMEM.
brk_refuse_growth(p, area, hipage) == brk_refuse(p)

\* do_brk(addr, ret)
do_brk(p, addr) ==
    IF addr = NULL THEN brk_null(p)
    ELSE
    LET start_brk == p.proc.p_start_brk
        brk == p.proc.p_brk
        vaddr == addr
        lopage == ADDR_TO_PN(PAGE_ALIGN_DOWN(start_brk))
    IN  IF vaddr < start_brk THEN brk_refuse(p)
        ELSE IF vaddr >= USER_MEM_HIGH THEN brk_refuse(p)
        ELSE IF vaddr = brk
        THEN [p EXCEPT !.brk_out = addr, !.proc.p_brk = addr,
                       !.ret = 0, !.returned = TRUE]
        ELSE IF ~(start_brk <= brk) THEN Panic(p)
        ELSE
        LET area == vmmap_lookup(p.proc.p_vmmap, lopage)
            hipage == ADDR_TO_PN(vaddr - 1)
        IN  IF area = NoArea THEN Panic(p)
            ELSE IF hipage < area.vma_end THEN brk_set(p, area, hipage, addr)
            ELSE IF brk_may_grow(p, area, hipage)
            THEN brk_set(p, area, hipage, addr)
            ELSE brk_refuse_growth(p, area, hipage)

\* The processes the loader hands over: the break at its start, anywhere in
\* user memory; the data/bss area holds the page of the starting break and
\* begins on it or one page below; at most one other area, of one or two
\* pages, lies apart from it.
HeapAreas(start_brk) ==
    {MkArea(s, ADDR_TO_PN(start_brk) + 1, {PROT_READ, PROT_WRITE}, 0, 1) :
        s \in {x \in Pages : ADDR_TO_PN(start_brk) - 1 <= x
                              /\ x <= ADDR_TO_PN(start_brk)}}
OtherAreas ==
    {a \in {MkArea(s, e, {PROT_READ}, 0, 2) : s \in Pages, e \in 1..NumPages} :
        a.vma_start < a.vma_end /\ a.vma_end <= a.vma_start + 2}
BrkMaps(start_brk) ==
    {{h} : h \in HeapAreas(start_brk)}
    \cup UNION {{{h, o} : o \in {x \in OtherAreas : ~Overlap(h, x)}} :
                    h \in HeapAreas(start_brk)}

InitBrk ==
    /\ SchedInit /\ ipl = IPL_LOW
    /\ tty = NewTty /\ tty_last = NoCall
    /\ \E start_brk \in 1..(USER_MEM_HIGH - 1) :
        /\ last_brk = start_brk
        /\ \E m \in BrkMaps(start_brk) :
            curproc = MkProc(start_brk, start_brk, m)

\* The brk system call of the current process, with any address up to one
\* page above user memory.
BrkAddrs == 0..(USER_MEM_HIGH + PAGE_SIZE)

BrkOf(addr) ==
    /\ ~panicked
    /\ LET r == do_brk(Vm, addr)
       IN  /\ SetVm(r)
           /\ last_brk' = IF addr # NULL /\ ~r.panicked /\ r.ret = 0
                           THEN addr ELSE last_brk

Brk == \E addr \in BrkAddrs : BrkOf(addr)

NextBrk == Brk

SpecBrk == InitBrk /\ [][NextBrk]_vars

----------------------------------------------------------------------------
\* P holds of every do_brk call the process can make in the current state.
ForAllBrk(P(_)) == ~panicked => \A addr \in BrkAddrs : P(addr)

LoPage == ADDR_TO_PN(curproc.p_start_brk)
NewEndPage(addr) == ADDR_TO_PN(addr - 1) + 1
Succeeded(r) == r.returned /\ ~r.panicked /\ r.ret = 0
Failed(r) == r.returned /\ ~r.panicked /\ r.ret < 0

\* The areas of map that reach from page lo to page hi.
Covering(map, lo, hi) == {a \in map : a.vma_start <= lo /\ hi <= a.vma_end}

BrkSets(addr) ==
    LET r == do_brk(Vm, addr)
        cov == Covering(r.proc.p_vmmap, LoPage, NewEndPage(addr))
    IN  (addr # NULL /\ Succeeded(r)) =>
            /\ r.proc.p_brk = addr
            /\ r.brk_out = addr
            /\ cov # {}
            /\ (LoPage < NewEndPage(addr) => Cardinality(cov) = 1)
            /\ (addr # curproc.p_brk =>
                    \E a \in cov : a.vma_end = NewEndPage(addr))

GrowthBlocked(addr) ==
    \E a \in curproc.p_vmmap :
        /\ Contains(a, LoPage)
        /\ NewEndPage(addr) > a.vma_end
        /\ \E b \in curproc.p_vmmap, pn \in a.vma_end..(NewEndPage(addr) - 1) :
                Contains(b, pn)

ShouldRefuse(addr) ==
    \/ addr < curproc.p_start_brk
    \/ addr >= USER_MEM_HIGH
    \/ GrowthBlocked(addr)

RefusesWhen(addr) ==
    LET r == do_brk(Vm, addr)
    IN  addr # NULL =>
            /\ (r.returned /\ r.ret = -ENOMEM) <=> ShouldRefuse(addr)
            /\ ~ShouldRefuse(addr) => Succeeded(r)

\* C15: do_brk(addr) with non-null addr returns -ENOMEM exactly when addr is
\* below start_brk, or at or above USER_MEM_HIGH, or needs the heap area to
\* grow over pages that are not free; in every other case it succeeds.
BrkRefusesExactlyWhen == ForAllBrk(RefusesWhen)

ErrorKeepsState(addr) ==
    LET r == do_brk(Vm, addr)
    IN  Failed(r) => r.proc = curproc

\* C16: a do_brk that returns an error leaves p_brk and every vmarea as
\* they were.
BrkErrorKeepsState == ForAllBrk(ErrorKeepsState)

\* After the heap has grown, a further growth is refused because another
\* area is in the way.
BrkRefusedWitness ==
    /\ ~panicked
    /\ curproc.p_brk > curproc.p_start_brk
    /\ \E addr \in BrkAddrs :
        /\ curproc.p_brk < addr /\ addr < USER_MEM_HIGH
        /\ Failed(do_brk(Vm, addr))

\* C17: do_brk(NULL) never fails, returns the current break and changes
\* nothing; a second call returns the same; and the value is the addr of the
\* latest successful non-null do_brk, or the loader's break.
BrkNullReturnsBreak ==
    ~panicked =>
        LET r == do_brk(Vm, NULL)
            again == do_brk([Vm EXCEPT !.proc = r.proc], NULL)
        IN  /\ Succeeded(r)
            /\ r.brk_out = curproc.p_brk
            /\ r.proc = curproc
            /\ Succeeded(again) /\ again.brk_out = r.brk_out
            /\ r.brk_out = last_brk

\* The break has been moved up and back down to a value above its start.
BrkNullWitness ==
    /\ ~panicked
    /\ last_brk # curproc.p_start_brk
    /\ \E a \in curproc.p_vmmap :
        a.vma_obj = 1 /\ a.vma_end < ADDR_TO_PN(USER_MEM_HIGH)
                      /\ a.vma_end > NewEndPage(curproc.p_start_brk)
    /\ do_brk(Vm, NULL).brk_out = last_brk

\* C18: after any sequence of do_brk calls the areas are pairwise disjoint
\* and none is empty, the heap area begins at or below the page of
\* start_brk, and it ends at or below the page of USER_MEM_HIGH.
BrkKeepsAreasWellFormed ==
    /\ \A a, b \in curproc.p_vmmap : a # b => ~Overlap(a, b)
    /\ \A a \in curproc.p_vmmap : a.vma_start < a.vma_end
    /\ \A a \in curproc.p_vmmap :
        a.vma_obj = 1 =>
            /\ a.vma_start <= LoPage
            /\ a.vma_end <= ADDR_TO_PN(USER_MEM_HIGH)

\* do_brk(addr) gets past the null test, the two bounds checks and the
\* test for the current break.
PastChecks(addr) ==
    /\ addr # NULL
    /\ addr >= curproc.p_start_brk
    /\ addr < USER_MEM_HIGH
    /\ addr # curproc.p_brk

FindsHeap(addr) ==
    PastChecks(addr) =>
        /\ vmmap_lookup(curproc.p_vmmap, LoPage) # NoArea
        /\ ~do_brk(Vm, addr).panicked

\* C22: every do_brk call that gets past the bounds checks with addr other
\* than the current break, after any sequence of do_brk calls, finds the
\* area that contains the page of start_brk: do_brk never reaches its panic.
BrkLookupFindsHeap == ForAllBrk(FindsHeap)

\* do_brk has halted in its panic: the break had been moved back to a
\* page-aligned start_brk, and no area holds that page any more.
BrkPanicWitness ==
    /\ panicked
    /\ curproc.p_brk = curproc.p_start_brk
    /\ PAGE_ALIGN_DOWN(curproc.p_start_brk) = curproc.p_start_brk
    /\ vmmap_lookup(curproc.p_vmmap, LoPage) = NoArea

----------------------------------------------------------------------------
\* The terminal layer: tty_read, tty_write, tty_echo and the driver
\* callback.

\* Characters.  A C string is a sequence that ends in NUL.
NUL == "NUL"
LF == "LF"
CR == "CR"
Letter == "a"

\* The tokens the driver hands out: one per caller is enough.
Tokens == 1..NumCallers

\* The tty state as one record, with the outputs of a call: ret (the value
\* returned), tok (what block_io returned last), out (the characters given
\* to provide_char, or copied to the reader's buffer) and trace (the calls
\* made to the driver and the line discipline, in order).
Tt == [tty |-> tty, ret |-> 0, tok |-> NULL, out |-> <<>>, trace |-> <<>>]

Event(s, op, arg) == [s EXCEPT !.trace = Append(@, [op |-> op, arg |-> arg])]

\* driver->ttd_ops->block_io(driver): blocks driver I/O and returns the
\* token that undoes it.
block_io(s) ==
    LET free == Tokens \ s.tty.blocked
        tok == CHOOSE k \in free : \A j \in free : k <= j
    IN  [Event(s, "block_io", tok) EXCEPT !.tty.blocked = @ \cup {tok}, !.tok = tok]

\* driver->ttd_ops->unblock_io(driver, tok)
unblock_io(s, tok) ==
    [Event(s, "unblock_io", tok) EXCEPT !.tty.blocked = @ \ {tok}]

\* driver->ttd_ops->provide_char(driver, c)
provide_char(s, c) == [Event(s, "provide_char", c) EXCEPT !.out = Append(@, c)]

\* ldisc->ld_ops->process_char(ldisc, c): the string to put out for c; a
\* newline becomes carriage return, newline.
process_char(c) == IF c = LF THEN <<CR, LF, NUL>> ELSE <<c, NUL>>

\* ldisc->ld_ops->receive_char(ldisc, c): c is buffered while there is room;
\* the string to echo.
receive_char(s, c) ==
    IF Len(s.tty.ld_buf) < MaxBuf
    THEN [Event(s, "receive_char", c) EXCEPT !.tty.ld_buf = Append(@, c)]
    ELSE Event(s, "receive_char", c)
receive_echo(s, c) ==
    IF Len(s.tty.ld_buf) < MaxBuf THEN process_char(c) ELSE <<NUL>>

\* A line is ready for ldisc read when the buffer holds a newline.
LineReady(s) == \E i \in 1..Len(s.tty.ld_buf) : s.tty.ld_buf[i] = LF
LineLen(s) ==
    CHOOSE i \in 1..Len(s.tty.ld_buf) :
        s.tty.ld_buf[i] = LF /\ \A j \in 1..(i - 1) : s.tty.ld_buf[j] # LF

\* ldisc->ld_ops->read(ldisc, buf, count) once a line is ready: up to count
\* bytes of the first line are moved into buf.
ldisc_read_copy(s, count) ==
    LET n == IF count < LineLen(s) THEN count ELSE LineLen(s)
    IN  [Event(s, "ldisc_read", count) EXCEPT
            !.out = SubSeq(s.tty.ld_buf, 1, n),
            !.tty.ld_buf = SubSeq(@, n + 1, Len(@)),
            !.ret = n]

\* tty_echo(driver, out): provide_char for each character before the NUL.
RECURSIVE echo_from(_, _, _)
echo_from(s, str, i) ==
    IF str[i + 1] # NUL
    THEN echo_from(provide_char(s, str[i + 1]), str, i + 1)
    ELSE s
tty_echo(s, str) == echo_from(s, str, 0)

\* The loop of tty_write from index i: stop at count or at a NUL byte, else
\* process_char and tty_echo.  The result carries i in ret.
RECURSIVE write_loop(_, _, _, _)
write_loop(s, buff, count, i) ==
    IF i < count /\ buff[i + 1] # NUL
    THEN write_loop(tty_echo(Event(s, "process_char", buff[i + 1]),
                             process_char(buff[i + 1])),
                    buff, count, i + 1)
    ELSE [s EXCEPT !.ret = i]

\* Mutant: the bytes written out to the driver are counted.
tty_write_counts_output(s, t, buf, count) ==
    LET b == block_io(s)
        l == write_loop(b, buf, count, 0)
    IN  [unblock_io(l, b.tok) EXCEPT !.ret = Len(l.out)]

\* Mutant: the loop returns from inside at a NUL byte.
tty_write_returns_at_nul(s, t, buf, count) ==
    LET b == block_io(s)
        l == write_loop(b, buf, count, 0)
    IN  IF l.ret < count THEN l ELSE unblock_io(l, b.tok)

\* tty_write(dev, offset, buf, count) by caller t.
tty_write(s, t, buf, count) ==
    LET b == block_io(s)
        l == write_loop(b, buf, count, 0)
    IN  unblock_io(l, b.tok)

\* tty_read(dev, offset, buf, count) by caller t, up to the point where the
\* line discipline's read returns or puts the caller to sleep.
tty_read(s, t, count) ==
    LET b == block_io(s)
    IN  IF LineReady(b)
        THEN unblock_io(ldisc_read_copy(b, count), b.tok)
        ELSE [Event(b, "ldisc_read", count) EXCEPT
                !.tty.frames[t] = [pc |-> "ldisc_read", ret |-> b.tok,
                                   count |-> count]]

\* The rest of tty_read for caller t, woken inside the line discipline's
\* read with a line ready.
tty_read_resume(s, t) ==
    LET f == s.tty.frames[t]
        r == unblock_io(ldisc_read_copy(s, f.count), f.ret)
    IN  [r EXCEPT !.tty.frames[t] = [pc |-> "idle", ret |-> NULL, count |-> 0]]

\* tty_global_driver_callback(tty, c)
tty_global_driver_callback(s, c) ==
    tty_echo(receive_char(s, c), receive_echo(s, c))

\* What is kept of a finished call: whether it returned less than count,
\* whether it returned 1 or more, whether it put out more characters than it
\* returned.
Brief(r, op, count) ==
    [op |-> op, short |-> r.ret < count, processed |-> r.ret >= 1,
     expanded |-> Len(r.out) > r.ret]

SetTty(r, op, count) ==
    /\ tty' = r.tty
    /\ tty_last' = Brief(r, op, count)
    /\ UNCHANGED <<sched_vars, panicked, curproc, last_brk>>

InitTty ==
    /\ SchedInit /\ ipl = IPL_LOW
    /\ curproc = IdleProc /\ last_brk = NULL
    /\ tty = NewTty /\ tty_last = NoCall

\* The buffers given to tty_write: MaxLen bytes each.
WriteBufs == [1..MaxLen -> {Letter, LF, NUL}]

\* count is an int: the counts that stay inside the buffer, and one below 0.
WriteCounts(buf) == (-1)..Len(buf)

\* The counts given to tty_read: one byte, and all the line discipline
\* can hold.
ReadCounts == {1, MaxBuf}

\* A key is pressed.
Callback ==
    \E c \in {Letter, LF} :
        LET r == tty_global_driver_callback(Tt, c)
        IN  /\ tty' = r.tty
            /\ tty_last' = Brief(r, "callback", 0)
            /\ UNCHANGED <<sched_vars, panicked, curproc, last_brk>>

\* The callers that may write.  tty_write runs to its return without
\* sleeping and keeps nothing of its caller, so one caller that is in no
\* call stands for all of them.
Writers ==
    LET idle == {t \in Callers : tty.frames[t].pc = "idle"}
    IN  IF idle = {} THEN {} ELSE {CHOOSE t \in idle : \A u \in idle : t <= u}

\* Caller t writes.
TtyWrite ==
    \E t \in Writers, buf \in WriteBufs :
        /\ tty.frames[t].pc = "idle"
        /\ \E count \in WriteCounts(buf) :
                SetTty(tty_write(Tt, t, buf, count), "write", count)

\* Caller t reads: the call returns, or sleeps in the line discipline.
TtyRead ==
    \E t \in Callers, count \in ReadCounts :
        /\ tty.frames[t].pc = "idle"
        /\ LET r == tty_read(Tt, t, count)
           IN  IF r.tty.frames[t].pc = "idle"
               THEN SetTty(r, "read", count)
               ELSE /\ tty' = r.tty
                    /\ UNCHANGED <<sched_vars, panicked, curproc, last_brk, tty_last>>

\* A sleeping reader is woken once a line is ready, and its call returns.
TtyReadResume ==
    \E t \in Callers :
        /\ tty.frames[t].pc = "ldisc_read"
        /\ LineReady(Tt)
        /\ SetTty(tty_read_resume(Tt, t), "read", tty.frames[t].count)

NextTty == Callback \/ TtyWrite \/ TtyRead \/ TtyReadResume

SpecTty == InitTty /\ [][NextTty]_vars

----------------------------------------------------------------------------
\* The arguments of the events of a trace that are calls of op, in order.
RECURSIVE ArgsOf(_, _)
ArgsOf(trace, op) ==
    IF trace = <<>> THEN <<>>
    ELSE (IF Head(trace).op = op THEN <<Head(trace).arg>> ELSE <<>>)
            \o ArgsOf(Tail(trace), op)

\* The index of the first NUL among buf[0..count), or count.
FirstNul(buf, count) ==
    IF \E i \in 1..count : buf[i] = NUL
    THEN (CHOOSE i \in 1..count :
            buf[i] = NUL /\ \A j \in 1..(i - 1) : buf[j] # NUL) - 1
    ELSE count

\* What the driver is to receive for the bytes of a sequence.
RECURSIVE Expansion(_)
Expansion(bytes) ==
    IF bytes = <<>> THEN <<>>
    ELSE (IF Head(bytes) = LF THEN <<CR, LF>> ELSE <<Head(bytes)>>)
            \o Expansion(Tail(bytes))

\* tty_write by t of count bytes of buf processes the first n bytes, once
\* each and in order, hands the characters of their expansions to
\* provide_char in order, and returns n.
WriteProcesses(t, buf, count, n) ==
    LET r == tty_write(Tt, t, buf, count)
    IN  /\ r.ret = n
        /\ ArgsOf(r.trace, "process_char") = SubSeq(buf, 1, n)
        /\ ArgsOf(r.trace, "provide_char") = Expansion(SubSeq(buf, 1, n))
        /\ r.out = Expansion(SubSeq(buf, 1, n))

Bracketed(trace) ==
    /\ Len(trace) >= 2
    /\ trace[1].op = "block_io"
    /\ trace[Len(trace)].op = "unblock_io"
    /\ trace[Len(trace)].arg = trace[1].arg
    /\ \A i \in 2..(Len(trace) - 1) : trace[i].op \notin {"block_io", "unblock_io"}

\* C20: every tty_read and tty_write makes one block_io before its first
\* line-discipline call and one unblock_io after its last, with the token its
\* block_io returned, on every return path; a reader asleep inside the line
\* discipline holds its block, whatever other callers do meanwhile.
LdiscCallsBracketed ==
    /\ \A t \in Writers, buf \in WriteBufs :
        \A count \in WriteCounts(buf) :
            LET r == tty_write(Tt, t, buf, count)
            IN  Bracketed(r.trace) /\ r.tty.blocked = tty.blocked
    /\ \A t \in Callers :
        tty.frames[t].pc = "idle" =>
            /\ \A count \in ReadCounts :
                LET r == tty_read(Tt, t, count)
                IN  IF r.tty.frames[t].pc = "idle"
                    THEN Bracketed(r.trace) /\ r.tty.blocked = tty.blocked
                    ELSE /\ r.trace = <<[op |-> "block_io", arg |-> r.tok],
                                        [op |-> "ldisc_read", arg |-> count]>>
                         /\ r.tty.frames[t].ret = r.tok
                         /\ r.tok \notin tty.blocked
                         /\ r.tty.blocked = tty.blocked \cup {r.tok}
    /\ \A t \in Callers :
        (tty.frames[t].pc = "ldisc_read" /\ LineReady(Tt)) =>
            LET r == tty_read_resume(Tt, t)
            IN  /\ r.trace = <<[op |-> "ldisc_read", arg |-> tty.frames[t].count],
                               [op |-> "unblock_io", arg |-> tty.frames[t].ret]>>
                /\ r.tty.blocked = tty.blocked \ {tty.frames[t].ret}
    /\ \A t \in Callers :
        tty.frames[t].pc = "ldisc_read" => tty.frames[t].ret \in tty.blocked
    /\ \A t, u \in Callers :
        (t # u /\ tty.frames[t].pc = "ldisc_read" /\ tty.frames[u].pc = "ldisc_read")
            => tty.frames[t].ret # tty.frames[u].ret
    /\ tty.blocked = {tty.frames[t].ret : t \in {u \in Callers : tty.frames[u].pc = "ldisc_read"}}

\* While one caller sleeps in its read, holding its block, another caller's
\* write has run from block_io to unblock_io.
InterleavedWitness ==
    /\ tty_last.op = "write" /\ tty_last.processed
    /\ \E t \in Callers :
        /\ tty.frames[t].pc = "ldisc_read"
        /\ tty.blocked = {tty.frames[t].ret}

============================================================================
